---- MODULE Spec2Model ----
(***************************************************************************)
(* A model of the oura command-line client (src/main.go): the token        *)
(* manager (loadToken, saveToken, getValidToken, refreshToken), the API    *)
(* client (apiGet) with the fetch commands that call it, and the OAuth     *)
(* authorization-code flow of doAuth with its callback listener.           *)
(*                                                                         *)
(* Time is counted in seconds.  The model's clock moves a minute at a      *)
(* time, and every duration the environment chooses (expires_in, network   *)
(* latency) is a whole number of minutes.  A behaviour is one invocation   *)
(* of the program: the clock runs in the shell, then main starts.          *)
(***************************************************************************)
EXTENDS Integers, Sequences, FiniteSets, Bags, TLC

(* ------------------------------ bounds --------------------------------- *)

\* The clock runs from 0 to MaxMinutes minutes.
MaxMinutes == 2

\* The token endpoint issues token pairs 1..NumTokens: access token k comes
\* with refresh token k.
NumTokens == 2

\* At most MaxFaults apiGet calls of one process fail for a reason outside
\* the process (the network, a server's answer, the disk).
MaxFaults == 1

\* At most MaxCallbacks requests reach /callback during one auth session.
MaxCallbacks == 2

(* --------------------------- program constants ------------------------- *)

Second == 1

Minute == 60 * Second

\* getValidToken: time.Now().Add(5 * time.Minute)
FiveMinutes == 5 * Minute

\* doAuth: time.After(2 * time.Minute)
TwoMinutes == 2 * Minute

StatusOK == 200

StatusBadRequest == 400

MaxNow == MaxMinutes * Minute

(* --------------------------- the environment --------------------------- *)

Tokens == 1..NumTokens

\* expires_in values (seconds) the token endpoint may answer with.
ExpiresInChoices == {2 * Minute, 6 * Minute}

\* Time a round trip to the token endpoint may take: less than the clock
\* can tell.
Latencies == {0}

\* The non-200 answers of the token endpoint, status and body.
ErrAnswers == {<<401, "invalid_grant">>, <<500, "server_error">>}

\* The TokenResponse a 200 answer decodes to; the zero value otherwise.
NoTokenResponse == [access_token |-> 0, refresh_token |-> 0, expires_in |-> 0]

TokenResponses ==
    {[access_token |-> k, refresh_token |-> k, expires_in |-> e] :
        k \in Tokens, e \in ExpiresInChoices}

\* What http.PostForm(tokenURL, ...) can come back with: a transport error,
\* a non-200 answer with a body, a 200 whose body is not JSON, a 200 with a
\* TokenResponse.
TokenReplies ==
    {[neterr |-> TRUE, status |-> 0, body |-> "", json |-> FALSE, tokenResp |-> NoTokenResponse]}
    \cup {[neterr |-> FALSE, status |-> a[1], body |-> a[2], json |-> FALSE,
           tokenResp |-> NoTokenResponse] : a \in ErrAnswers}
    \cup {[neterr |-> FALSE, status |-> StatusOK, body |-> "garbage", json |-> FALSE,
           tokenResp |-> NoTokenResponse]}
    \cup {[neterr |-> FALSE, status |-> StatusOK, body |-> "json", json |-> TRUE, tokenResp |-> r] :
            r \in TokenResponses}

\* What os.WriteFile can do: write the file, fail to open it (file as it
\* was), fail while writing (file truncated).
SaveOutcomes == {"ok", "openfail", "writefail"}

\* What can happen to one call of the token endpoint: its answer, the time
\* the answer takes, and what the write of token.json does when the answer
\* gets that far.
TokenEnvs ==
    {[reply |-> r, lat |-> l, outcome |-> o] :
        r \in {x \in TokenReplies : x.json}, l \in Latencies, o \in SaveOutcomes}
    \cup {[reply |-> r, lat |-> l, outcome |-> "ok"] :
        r \in {x \in TokenReplies : ~x.json}, l \in Latencies}

\* What the data API can come back with.  A 200 body either holds a record
\* for the requested day ("hit") or does not ("empty").
ApiReplies ==
    {[neterr |-> TRUE, status |-> 0, body |-> ""],
     [neterr |-> FALSE, status |-> StatusOK, body |-> "hit"],
     [neterr |-> FALSE, status |-> StatusOK, body |-> "empty"],
     [neterr |-> FALSE, status |-> 500, body |-> "server_error"]}

(* ----------------------------- token file ------------------------------ *)

\* The zero StoredToken.
ZeroToken == [access_token |-> 0, refresh_token |-> 0, expires_at |-> 0]

\* token.json: absent, holding a StoredToken, or holding a truncated write.
NoFile == [state |-> "absent", tok |-> ZeroToken]

\* An error value is the sequence of the parts of its message; nil is <<>>.
nil == <<>>

\* A saveToken that reports success without writing.
saveToken_Forgets(file, token, outcome) == [err |-> nil, file |-> file]

\* saveToken: os.WriteFile(getTokenPath(), data, 0600).
saveToken(file, token, outcome) ==
    CASE outcome = "ok" ->
           [err |-> nil, file |-> [state |-> "ok", tok |-> token]]
      [] outcome = "openfail" ->
           [err |-> <<"open token.json">>, file |-> file]
      [] OTHER ->
           [err |-> <<"write token.json">>, file |-> [state |-> "corrupt", tok |-> ZeroToken]]

\* A loadToken that answers the zero record when it cannot read one.
loadToken_ZeroRecord(file) ==
    [err |-> nil, token |-> IF file.state = "ok" THEN file.tok ELSE ZeroToken]

\* loadToken: os.Open fails on an absent file, json.Unmarshal on a truncated
\* one.
loadToken(file) ==
    CASE file.state = "ok"     -> [err |-> nil, token |-> file.tok]
      [] file.state = "absent" -> [err |-> <<"open token.json">>, token |-> ZeroToken]
      [] OTHER                 -> [err |-> <<"unexpected end of JSON input">>, token |-> ZeroToken]

(* ---------------------------- token manager ---------------------------- *)

\* stored.ExpiresAt = time.Now().Add(time.Duration(ExpiresIn) * time.Second)
ExpiresAt(t, expiresIn) == t + expiresIn * Second

\* A refreshToken that stores what it decoded before it looks at the status.
RefreshRejected_StoresFirst(file, body) ==
    [err |-> <<"token refresh failed: ", body>>, token |-> ZeroToken,
     file |-> [state |-> "ok", tok |-> ZeroToken], wrote |-> TRUE]

\* refreshToken, resp.StatusCode != 200: the error carries the body, the
\* file is not touched.
RefreshRejected(file, body) ==
    [err |-> <<"token refresh failed: ", body>>, token |-> ZeroToken,
     file |-> file, wrote |-> FALSE]

\* refreshToken, the response arriving at time t.
refreshToken(refresh, file, t, reply, outcome) ==
    LET stored == [access_token  |-> reply.tokenResp.access_token,
                   refresh_token |-> reply.tokenResp.refresh_token,
                   expires_at    |-> ExpiresAt(t, reply.tokenResp.expires_in)]
        saved  == saveToken(file, stored, outcome)
    IN  CASE reply.neterr ->
               [err |-> <<"Post: connection failed">>, token |-> ZeroToken,
                file |-> file, wrote |-> FALSE]
          [] reply.status # StatusOK -> RefreshRejected(file, reply.body)
          [] ~reply.json ->
               [err |-> <<"invalid character">>, token |-> ZeroToken,
                file |-> file, wrote |-> FALSE]
          [] saved.err # nil ->
               [err |-> saved.err, token |-> ZeroToken,
                file |-> saved.file, wrote |-> saved.file # file]
          [] OTHER ->
               [err |-> nil, token |-> stored, file |-> saved.file, wrote |-> TRUE]

\* A check without the five minutes: time.Now().After(token.ExpiresAt).
NeedsRefresh_NoMargin(t, token) == t > token.expires_at

\* A check that always asks for a refresh.
NeedsRefresh_Always(t, token) == TRUE

\* time.Now().Add(5 * time.Minute).After(token.ExpiresAt)
NeedsRefresh(t, token) == t + FiveMinutes > token.expires_at

\* getValidToken called at time t; a refresh's answer arrives lat later.
\* Besides the (string, error) pair it returns, the record says what the
\* call did: the record it loaded, whether it called refreshToken, the
\* file it leaves, the time it returns at.
getValidToken(file, t, reply, lat, outcome) ==
    LET loaded    == loadToken(file)
        refreshed == refreshToken(loaded.token.refresh_token, file, t + lat, reply, outcome)
    IN  CASE loaded.err # nil ->
               [token |-> 0, err |-> <<"not authenticated - run 'oura auth' first">>,
                loaded |-> FALSE, stored |-> ZeroToken, used |-> ZeroToken,
                refresh |-> FALSE, status |-> 0, body |-> "", expiresIn |-> 0,
                file |-> file, wrote |-> FALSE, at |-> t, done |-> t]
          [] NeedsRefresh(t, loaded.token) /\ refreshed.err # nil ->
               [token |-> 0,
                err |-> <<"token refresh failed - run 'oura auth' again: ">> \o refreshed.err,
                loaded |-> TRUE, stored |-> loaded.token, used |-> ZeroToken,
                refresh |-> TRUE, status |-> reply.status, body |-> reply.body,
                expiresIn |-> reply.tokenResp.expires_in,
                file |-> refreshed.file, wrote |-> refreshed.wrote, at |-> t, done |-> t + lat]
          [] NeedsRefresh(t, loaded.token) ->
               [token |-> refreshed.token.access_token, err |-> nil,
                loaded |-> TRUE, stored |-> loaded.token, used |-> refreshed.token,
                refresh |-> TRUE, status |-> reply.status, body |-> reply.body,
                expiresIn |-> reply.tokenResp.expires_in,
                file |-> refreshed.file, wrote |-> refreshed.wrote, at |-> t, done |-> t + lat]
          [] OTHER ->
               [token |-> loaded.token.access_token, err |-> nil,
                loaded |-> TRUE, stored |-> loaded.token, used |-> loaded.token,
                refresh |-> FALSE, status |-> 0, body |-> "", expiresIn |-> 0,
                file |-> file, wrote |-> FALSE, at |-> t, done |-> t]

(* ------------------------------ API client ----------------------------- *)

\* apiGet called at time t.  Besides the ([]byte, error) pair it returns, the
\* record carries what getValidToken did (gvt) and the GET request, if one
\* was issued: the bearer token put in its Authorization header, the
\* expires_at of the record that token came from, the time it was sent.
apiGet(file, t, endpoint, treply, lat, outcome, areply) ==
    LET gvt  == getValidToken(file, t, treply, lat, outcome)
        base == [endpoint |-> endpoint, gvt |-> gvt, sent |-> gvt.err = nil,
                 bearer |-> gvt.token, bearerExpiresAt |-> gvt.used.expires_at,
                 sentAt |-> gvt.done, status |-> areply.status]
    IN  CASE gvt.err # nil ->
               [base EXCEPT !.status = 0] @@ [body |-> "", err |-> gvt.err]
          [] areply.neterr ->
               base @@ [body |-> "", err |-> <<"Get: connection failed">>]
          [] areply.status # StatusOK ->
               base @@ [body |-> "",
                        err |-> <<"API error ", ToString(areply.status), ": ", areply.body>>]
          [] OTHER ->
               base @@ [body |-> areply.body, err |-> nil]

\* The value of the call record before any apiGet of the process.
NoCall ==
    [endpoint |-> "", sent |-> FALSE, bearer |-> 0, bearerExpiresAt |-> 0, sentAt |-> 0,
     status |-> 0, body |-> "", err |-> nil,
     gvt |-> [token |-> 0, err |-> nil, loaded |-> FALSE, stored |-> ZeroToken,
              used |-> ZeroToken, refresh |-> FALSE, status |-> 0, body |-> "",
              expiresIn |-> 0, file |-> NoFile, wrote |-> FALSE, at |-> 0, done |-> 0]]

(* ------------------------------ commands ------------------------------- *)

\* One apiGet call of a fetch function and what the function does when the
\* call fails: "exit" (print the error, os.Exit(1)), "ignore" (go on
\* without the body), "continue" (skip the endpoint).
Step(fn, endpoint, label, onErr) ==
    [fn |-> fn, endpoint |-> endpoint, label |-> label, onErr |-> onErr]

fetchSleep ==
    <<Step("fetchSleep", "/daily_sleep", "sleep", "ignore"),
      Step("fetchSleep", "/sleep", "sleep", "exit")>>

fetchReadiness == <<Step("fetchReadiness", "/daily_readiness", "readiness", "exit")>>

fetchActivity == <<Step("fetchActivity", "/daily_activity", "activity", "exit")>>

fetchHeartRate == <<Step("fetchHeartRate", "/heartrate", "heart rate", "exit")>>

fetchStress == <<Step("fetchStress", "/daily_stress", "stress", "exit")>>

fetchSpO2 == <<Step("fetchSpO2", "/daily_spo2", "SpO2", "exit")>>

fetchResilience == <<Step("fetchResilience", "/daily_resilience", "resilience", "exit")>>

fetchVO2Max == <<Step("fetchVO2Max", "/vO2_max", "VO2 max", "exit")>>

fetchWorkouts == <<Step("fetchWorkouts", "/workout", "workout", "exit")>>

fetchAll == fetchReadiness \o fetchSleep \o fetchActivity \o fetchStress \o fetchHeartRate

endpoints ==
    <<"/sleep", "/daily_sleep", "/daily_activity", "/daily_readiness", "/heartrate",
      "/daily_stress", "/daily_spo2", "/daily_resilience", "/vO2_max", "/workout">>

fetchJSON == [i \in 1..Len(endpoints) |-> Step("fetchJSON", endpoints[i], "json", "continue")]

\* The switch of main.
FetchCommands ==
    {"today", "sleep", "activity", "readiness", "heartrate", "stress", "spo2",
     "resilience", "vo2", "workout", "all", "json"}

Commands == {"auth"} \cup FetchCommands

Dispatch(c) ==
    CASE c = "today"      -> fetchAll
      [] c = "sleep"      -> fetchSleep
      [] c = "activity"   -> fetchActivity
      [] c = "readiness"  -> fetchReadiness
      [] c = "heartrate"  -> fetchHeartRate
      [] c = "stress"     -> fetchStress
      [] c = "spo2"       -> fetchSpO2
      [] c = "resilience" -> fetchResilience
      [] c = "vo2"        -> fetchVO2Max
      [] c = "workout"    -> fetchWorkouts
      [] c = "all"        -> fetchAll
      [] c = "json"       -> fetchJSON
      [] OTHER            -> <<>>

\* os.Args[1] of an invocation: a command, nothing ("") or an unknown word.
Args == Commands \cup {"", "bogus"}

(* -------------------------------- state -------------------------------- *)

VARIABLES
    now,          \* the wall clock, in seconds
    tokenFile,    \* token.json
    pc,           \* where the process is: "shell" before the first invocation,
                  \* "fetch", "awaiting", "gotcode", "goterr", "gottimeout",
                  \* "exchanging" while it runs, "exited", "authenticated",
                  \* "failed", "timedout" once it has ended
    cmd,          \* os.Args[1] of the invocation
    configLoaded, \* loadConfig filled the config global
    todo,         \* the apiGet calls the command has still to make
    dailySleep,   \* fetchSleep: a daily_sleep record of the day was found
    result,       \* fetchJSON: len(result), the number of bodies kept
    stdout,       \* the last line the process printed to standard output
    stderr,       \* what the process printed to standard error
    exitCode,     \* the exit status; Running while the process runs
    call,         \* the last apiGet call of the process
    faults,       \* how many apiGet calls of the process failed from outside
    state,        \* doAuth: the state value of the session
    codeChan,     \* doAuth: the buffered channel of codes, capacity 1
    errChan,      \* doAuth: the buffered channel of errors, capacity 1
    server,       \* doAuth: the http.Server: "none", "new", "listening", "closed"
    listener,     \* doAuth: the goroutine around ListenAndServe: "none", "spawned",
                  \* "serving", "blocked" (in its send), "sent" (sent, ended),
                  \* "done" (ended without sending)
    handlers,     \* doAuth: the bag of /callback handler invocations
    deadline,     \* doAuth: when the time.After timer of the select fires
    code,         \* doAuth: the code the select received
    authErr,      \* doAuth: the error the select received
    fileAtStart,  \* token.json as it was when the process started
    exchanges,    \* how many times the process called exchangeCode
    exchangeReply \* exchangeCode: what http.PostForm(tokenURL, ...) came back with

vars ==
    <<now, tokenFile, pc, cmd, configLoaded, todo, dailySleep, result, stdout, stderr,
      exitCode, call, faults, state, codeChan, errChan, server, listener, handlers, deadline, code,
      authErr, fileAtStart, exchanges,
                   exchangeReply>>

authVars ==
    <<state, codeChan, errChan, server, listener, handlers, deadline, code, authErr, exchanges,
                   exchangeReply>>

fetchVars == <<todo, dailySleep, result, call, faults>>

Running == -1

\* exchangeCode has not called the token endpoint.
NoReply == [neterr |-> FALSE, status |-> 0, body |-> ""]

\* token.json as an earlier run of the program may have left it: absent, or
\* a record exchangeCode stored at time 0 (call its token pair 1).
InitFiles ==
    {NoFile} \cup
    {[state |-> "ok", tok |-> [access_token |-> 1, refresh_token |-> 1,
                               expires_at |-> ExpiresAt(0, e)]] : e \in ExpiresInChoices}

Init ==
    /\ now = 0
    /\ tokenFile \in InitFiles
    /\ pc = "shell"
    /\ cmd = ""
    /\ configLoaded = FALSE
    /\ todo = <<>>
    /\ dailySleep = FALSE
    /\ result = 0
    /\ stdout = ""
    /\ stderr = <<>>
    /\ exitCode = Running
    /\ call = NoCall
    /\ faults = 0
    /\ state = 0
    /\ codeChan = <<>>
    /\ errChan = <<>>
    /\ server = "none"
    /\ listener = "none"
    /\ handlers = EmptyBag
    /\ deadline = 0
    /\ code = ""
    /\ authErr = nil
    /\ fileAtStart = tokenFile
    /\ exchanges = 0
    /\ exchangeReply = NoReply

\* The clock moves on.  A fetch command runs from its first apiGet to its
\* end within one reading of the clock.
Tick ==
    /\ pc # "fetch"
    /\ now + Minute <= MaxNow
    /\ now' = now + Minute
    /\ UNCHANGED <<tokenFile, pc, cmd, configLoaded, todo, dailySleep, result, stdout,
                   stderr, exitCode, call, faults, state, codeChan, errChan, server, listener,
                   handlers, deadline, code, authErr, fileAtStart, exchanges,
                   exchangeReply>>

(* -------------------------------- main --------------------------------- *)

\* The fetch functions' variables as a fresh process has them.
FreshFetch ==
    /\ todo' = <<>>
    /\ dailySleep' = FALSE
    /\ result' = 0
    /\ call' = NoCall
    /\ faults' = 0

\* doAuth's variables as a fresh process has them.
FreshAuth ==
    /\ state' = 0
    /\ codeChan' = <<>>
    /\ errChan' = <<>>
    /\ server' = "none"
    /\ listener' = "none"
    /\ handlers' = EmptyBag
    /\ deadline' = 0
    /\ code' = ""
    /\ authErr' = nil
    /\ exchanges' = 0
    /\ exchangeReply' = NoReply

\* config.json as loadConfig may find it.
ConfigFiles == {"ok", "absent", "malformed"}

\* loadConfig: os.ReadFile fails on an absent file, json.Unmarshal on a
\* malformed one.
loadConfig(file) ==
    CASE file = "ok"     -> nil
      [] file = "absent" -> <<"missing config: config.json">>
      [] OTHER           -> <<"unexpected end of JSON input">>

\* A printUsage that prints nothing.
printUsage_Nothing == ""

\* printUsage: the usage text on standard output.
printUsage == "usage"

\* main with no command, or with a config.json that loadConfig cannot load:
\* os.Exit(1) before the switch.
mainEarlyExit ==
    /\ pc = "shell"
    /\ \E arg \in Args, configFile \in ConfigFiles :
         /\ arg = "" \/ loadConfig(configFile) # nil
         /\ cmd' = arg
         /\ configLoaded' = FALSE
         /\ IF arg = ""
              THEN stdout' = printUsage /\ stderr' = <<>>
              ELSE stdout' = "" /\ stderr' = <<loadConfig(configFile)>>
    /\ pc' = "exited"
    /\ exitCode' = 1
    /\ FreshFetch
    /\ FreshAuth
    /\ fileAtStart' = tokenFile
    /\ UNCHANGED <<now, tokenFile>>

\* main, default case of the switch: usage, os.Exit(1).
mainUnknown ==
    /\ pc = "shell"
    /\ \E arg \in Args \ ({""} \cup Commands) : cmd' = arg
    /\ configLoaded' = TRUE
    /\ stdout' = printUsage
    /\ stderr' = <<>>
    /\ pc' = "exited"
    /\ exitCode' = 1
    /\ FreshFetch
    /\ FreshAuth
    /\ fileAtStart' = tokenFile
    /\ UNCHANGED <<now, tokenFile>>

\* main, a fetch command: up to the first apiGet of the fetch function.
mainFetch ==
    /\ pc = "shell"
    /\ \E arg \in FetchCommands :
         /\ cmd' = arg
         /\ todo' = Dispatch(arg)
         /\ stdout' = IF arg \in {"today", "all"} THEN "OURA METRICS" ELSE ""
    /\ configLoaded' = TRUE
    /\ stderr' = <<>>
    /\ pc' = "fetch"
    /\ exitCode' = Running
    /\ dailySleep' = FALSE
    /\ result' = 0
    /\ call' = NoCall
    /\ faults' = 0
    /\ FreshAuth
    /\ fileAtStart' = tokenFile
    /\ UNCHANGED <<now, tokenFile>>

\* A fetch function that prints its heading whatever the body holds.
Report_Heading(step, body, daily) == step.label

\* The line a fetch function prints for a 200 body.
Report(step, body, daily) ==
    IF step.fn = "fetchSleep"
      THEN IF body = "empty" /\ ~daily
             THEN "No " \o step.label \o " data"
             ELSE step.label
      ELSE IF body = "empty"
             THEN "No " \o step.label \o " data"
             ELSE step.label

\* strings.TrimPrefix(ep, "/")
TrimPrefix(ep) ==
    CASE ep = "/sleep"            -> "sleep"
      [] ep = "/daily_sleep"      -> "daily_sleep"
      [] ep = "/daily_activity"   -> "daily_activity"
      [] ep = "/daily_readiness"  -> "daily_readiness"
      [] ep = "/heartrate"        -> "heartrate"
      [] ep = "/daily_stress"     -> "daily_stress"
      [] ep = "/daily_spo2"       -> "daily_spo2"
      [] ep = "/daily_resilience" -> "daily_resilience"
      [] ep = "/vO2_max"          -> "vO2_max"
      [] ep = "/workout"          -> "workout"
      [] OTHER                    -> ep

\* A caller that never gives up on an error.
OnError_GoesOn(step) == "continue"

\* What the caller of apiGet does with an error: "exit" ends the process.
OnError(step) == step.onErr

\* The next apiGet call of a fetch command and what its fetch function does
\* with the answer, up to the next apiGet call or the end of the process.
fetchStep ==
    /\ pc = "fetch"
    /\ todo # <<>>
    /\ \E env \in TokenEnvs, areply \in ApiReplies :
         LET step  == Head(todo)
             got   == apiGet(tokenFile, now, step.endpoint, env.reply, env.lat, env.outcome,
                             areply)
             last  == Len(todo) = 1
             fault == got.err # nil /\ got.gvt.loaded
         IN  /\ got.gvt.done <= MaxNow
             /\ fault => faults < MaxFaults
             /\ faults' = IF fault THEN faults + 1 ELSE faults
             /\ call' = got
             /\ tokenFile' = got.gvt.file
             /\ now' = got.gvt.done
             /\ IF got.err # nil /\ OnError(step) = "exit"
                  THEN /\ stderr' = Append(stderr, <<"Error: ">> \o got.err)
                       /\ pc' = "exited"
                       /\ exitCode' = 1
                       /\ UNCHANGED <<todo, dailySleep, result, stdout>>
                  ELSE /\ todo' = Tail(todo)
                       /\ stderr' = stderr
                       /\ pc' = IF last THEN "exited" ELSE "fetch"
                       /\ exitCode' = IF last THEN 0 ELSE Running
                       /\ dailySleep' =
                            IF step.onErr = "ignore"
                              THEN got.err = nil /\ got.body = "hit"
                              ELSE dailySleep
                       /\ result' =
                            IF step.onErr = "continue" /\ got.err = nil
                              THEN result + 1
                              ELSE result
                       /\ stdout' =
                            CASE step.onErr = "exit" ->
                                   Report(step, got.body, dailySleep)
                              [] step.onErr = "continue" /\ last ->
                                   "json"
                              [] OTHER -> stdout
    /\ UNCHANGED <<cmd, configLoaded, authVars, fileAtStart>>

(* ------------------------------- doAuth -------------------------------- *)

\* Capacity of codeChan and of errChan: make(chan ..., 1).
ChanCap == 1

\* The query of a request to /callback: its state parameter is the
\* session's or another one, its code is there ("c1") or not ("").
CallbackStates(st) == {st, st + 1}

CallbackCodes == {"", "c1"}

\* r.URL.Query().Get("state") != state, negated.
StateMatches(q, st) == q = st

\* A main flow that leaves the server as it is.
Close_Forgotten(s) == s

\* server.Close().
Close(s) == "closed"

\* The timer of time.After(2 * time.Minute), started at time t.
After(t) == t + TwoMinutes

\* A timer that never fires.
TimerFired_Never(t, d) == FALSE

\* The timer's channel has a value at time t.
TimerFired(t, d) == t >= d

AuthRunning == {"awaiting", "gotcode", "goterr", "gottimeout", "exchanging"}

\* main, case "auth": doAuth up to its select.  The state value is the
\* clock reading; the listener goroutine is spawned and has not run yet.
mainAuth ==
    /\ pc = "shell"
    /\ now + TwoMinutes <= MaxNow
    /\ cmd' = "auth"
    /\ configLoaded' = TRUE
    /\ state' = now
    /\ codeChan' = <<>>
    /\ errChan' = <<>>
    /\ server' = "new"
    /\ listener' = "spawned"
    /\ handlers' = EmptyBag
    /\ deadline' = After(now)
    /\ code' = ""
    /\ authErr' = nil
    /\ exchanges' = 0
    /\ exchangeReply' = NoReply
    /\ fileAtStart' = tokenFile
    /\ stdout' = "authorize URL"
    /\ stderr' = <<>>
    /\ pc' = "awaiting"
    /\ exitCode' = Running
    /\ FreshFetch
    /\ UNCHANGED <<now, tokenFile>>

\* The listener goroutine: server.ListenAndServe() binds the port, fails to
\* bind it, or finds the server closed already.  A failure is sent on
\* errChan.
listenerStart ==
    /\ pc \in AuthRunning
    /\ listener = "spawned"
    /\ \/ /\ server = "closed"
          /\ listener' = "done"
          /\ UNCHANGED <<server, errChan>>
       \/ /\ server = "new"
          /\ server' = "listening"
          /\ listener' = "serving"
          /\ UNCHANGED errChan
       \/ /\ server = "new"
          /\ server' = "stopped"
          /\ IF Len(errChan) < ChanCap
               THEN errChan' = Append(errChan, <<"listen tcp :8081: bind: address already in use">>)
                    /\ listener' = "sent"
               ELSE errChan' = errChan /\ listener' = "blocked"
    /\ UNCHANGED <<now, tokenFile, pc, cmd, configLoaded, fetchVars, stdout, stderr, exitCode,
                   state, codeChan, handlers, deadline, code, authErr, fileAtStart, exchanges,
                   exchangeReply>>

\* The listener goroutine: ListenAndServe returns while serving, with
\* ErrServerClosed after server.Close() and with the accept error when the
\* listening socket fails.
listenerReturn ==
    /\ pc \in AuthRunning
    /\ listener = "serving"
    /\ \/ /\ server = "closed"
          /\ listener' = "done"
          /\ UNCHANGED <<server, errChan>>
       \/ /\ server = "listening"
          /\ server' = "stopped"
          /\ IF Len(errChan) < ChanCap
               THEN errChan' = Append(errChan, <<"accept tcp: too many open files">>)
                    /\ listener' = "sent"
               ELSE errChan' = errChan /\ listener' = "blocked"
    /\ UNCHANGED <<now, tokenFile, pc, cmd, configLoaded, fetchVars, stdout, stderr, exitCode,
                   state, codeChan, handlers, deadline, code, authErr, fileAtStart, exchanges,
                   exchangeReply>>

\* The listener goroutine, blocked in errChan <- err, gets to send.
listenerSend ==
    /\ pc \in AuthRunning
    /\ listener = "blocked"
    /\ Len(errChan) < ChanCap
    /\ errChan' = Append(errChan, <<"accept tcp: too many open files">>)
    /\ listener' = "sent"
    /\ UNCHANGED <<now, tokenFile, pc, cmd, configLoaded, fetchVars, stdout, stderr, exitCode,
                   state, codeChan, server, handlers, deadline, code, authErr, fileAtStart,
                   exchanges,
                   exchangeReply>>

\* One invocation of the /callback handler, from the request to the
\* handler's return or to the channel send it blocks in.  The record keeps
\* what the handler made of the request (the error or the code it sends),
\* where it is (at), whether its send was performed, the status it wrote
\* (0: nothing written yet), and whether the main flow had already left
\* its select when the request came in (late).
handler(q, c, st, errRoom, codeRoom, mainPc) ==
    CASE ~StateMatches(q, st) ->
           [err |-> <<"state mismatch">>, code |-> "",
            at |-> IF errRoom THEN "done" ELSE "senderr",
            sent |-> errRoom,
            status |-> IF errRoom THEN StatusBadRequest ELSE 0, late |-> mainPc # "awaiting"]
      [] c = "" ->
           [err |-> <<"no code in callback">>, code |-> "",
            at |-> IF errRoom THEN "done" ELSE "senderr",
            sent |-> errRoom,
            status |-> IF errRoom THEN StatusBadRequest ELSE 0, late |-> mainPc # "awaiting"]
      [] OTHER ->
           [err |-> nil, code |-> c,
            at |-> IF codeRoom THEN "done" ELSE "sendcode",
            sent |-> codeRoom,
            status |-> StatusOK, late |-> mainPc # "awaiting"]

\* A request reaches /callback while the server is listening.
callback ==
    /\ pc \in AuthRunning
    /\ server = "listening"
    /\ BagCardinality(handlers) < MaxCallbacks
    /\ \E q \in CallbackStates(state), c \in CallbackCodes :
         LET h == handler(q, c, state, Len(errChan) < ChanCap, Len(codeChan) < ChanCap, pc)
         IN  /\ handlers' = handlers (+) SetToBag({h})
             /\ errChan' = IF h.sent /\ h.err # nil THEN Append(errChan, h.err) ELSE errChan
             /\ codeChan' = IF h.sent /\ h.err = nil THEN Append(codeChan, h.code) ELSE codeChan
    /\ UNCHANGED <<now, tokenFile, pc, cmd, configLoaded, fetchVars, stdout, stderr, exitCode,
                   state, server, listener, deadline, code, authErr, fileAtStart, exchanges,
                   exchangeReply>>

\* The handler h, as it is once the send it was blocked in is performed.
Unblocked(h) ==
    [h EXCEPT !.at = "done", !.sent = TRUE,
              !.status = IF h.at = "senderr" THEN StatusBadRequest ELSE h.status]

\* A handler blocked in a channel send gets to send, and returns.
handlerSend ==
    /\ pc \in AuthRunning
    /\ \E h \in BagToSet(handlers) :
         /\ \/ /\ h.at = "senderr"
               /\ Len(errChan) < ChanCap
               /\ errChan' = Append(errChan, h.err)
               /\ codeChan' = codeChan
            \/ /\ h.at = "sendcode"
               /\ Len(codeChan) < ChanCap
               /\ codeChan' = Append(codeChan, h.code)
               /\ errChan' = errChan
         /\ handlers' = (handlers (-) SetToBag({h})) (+) SetToBag({Unblocked(h)})
    /\ UNCHANGED <<now, tokenFile, pc, cmd, configLoaded, fetchVars, stdout, stderr, exitCode,
                   state, server, listener, deadline, code, authErr, fileAtStart, exchanges,
                   exchangeReply>>

\* The select of doAuth receives from codeChan.
selectCode ==
    /\ pc = "awaiting"
    /\ codeChan # <<>>
    /\ code' = Head(codeChan)
    /\ codeChan' = Tail(codeChan)
    /\ pc' = "gotcode"
    /\ UNCHANGED <<now, tokenFile, cmd, configLoaded, fetchVars, stdout, stderr, exitCode,
                   state, errChan, server, listener, handlers, deadline, authErr, fileAtStart,
                   exchanges,
                   exchangeReply>>

\* The select of doAuth receives from errChan.
selectErr ==
    /\ pc = "awaiting"
    /\ errChan # <<>>
    /\ authErr' = Head(errChan)
    /\ errChan' = Tail(errChan)
    /\ pc' = "goterr"
    /\ UNCHANGED <<now, tokenFile, cmd, configLoaded, fetchVars, stdout, stderr, exitCode,
                   state, codeChan, server, listener, handlers, deadline, code, fileAtStart,
                   exchanges,
                   exchangeReply>>

\* The select of doAuth receives from the timer.
selectTimeout ==
    /\ pc = "awaiting"
    /\ TimerFired(now, deadline)
    /\ pc' = "gottimeout"
    /\ UNCHANGED <<now, tokenFile, cmd, configLoaded, fetchVars, stdout, stderr, exitCode,
                   authVars, fileAtStart>>

\* case code := <-codeChan: server.Close(), then exchangeCode is entered.
caseCode ==
    /\ pc = "gotcode"
    /\ server' = Close(server)
    /\ pc' = "exchanging"
    /\ UNCHANGED <<now, tokenFile, cmd, configLoaded, fetchVars, stdout, stderr, exitCode,
                   state, codeChan, errChan, listener, handlers, deadline, code, authErr,
                   fileAtStart, exchanges,
                   exchangeReply>>

\* case err := <-errChan: server.Close(), the error is printed, os.Exit(1).
caseErr ==
    /\ pc = "goterr"
    /\ server' = Close(server)
    /\ stderr' = Append(stderr, <<"Auth error: ">> \o authErr)
    /\ pc' = "failed"
    /\ exitCode' = 1
    /\ UNCHANGED <<now, tokenFile, cmd, configLoaded, fetchVars, stdout,
                   state, codeChan, errChan, listener, handlers, deadline, code, authErr,
                   fileAtStart, exchanges,
                   exchangeReply>>

\* case <-time.After(...): server.Close(), "Auth timeout", os.Exit(1).
caseTimeout ==
    /\ pc = "gottimeout"
    /\ server' = Close(server)
    /\ stderr' = Append(stderr, <<"Auth timeout">>)
    /\ pc' = "timedout"
    /\ exitCode' = 1
    /\ UNCHANGED <<now, tokenFile, cmd, configLoaded, fetchVars, stdout,
                   state, codeChan, errChan, listener, handlers, deadline, code, authErr,
                   fileAtStart, exchanges,
                   exchangeReply>>

\* An exchangeCode that stores a record whatever the token endpoint answers.
exchangeCode_StoresAnyAnswer(c, file, t, reply, outcome) ==
    [stderr |-> <<>>, stdout |-> "Authenticated successfully!",
     file |-> [state |-> "ok",
               tok |-> [access_token  |-> reply.tokenResp.access_token,
                        refresh_token |-> reply.tokenResp.refresh_token,
                        expires_at    |-> ExpiresAt(t, reply.tokenResp.expires_in)]],
     exit |-> 0]

\* exchangeCode, the token endpoint's answer arriving at time t: what it
\* prints, the file it leaves and the exit status (0: it returns, and main
\* with it).
exchangeCode(c, file, t, reply, outcome) ==
    LET stored == [access_token  |-> reply.tokenResp.access_token,
                   refresh_token |-> reply.tokenResp.refresh_token,
                   expires_at    |-> ExpiresAt(t, reply.tokenResp.expires_in)]
        saved  == saveToken(file, stored, outcome)
    IN  CASE reply.neterr ->
               [stderr |-> <<"Token exchange failed: ", "Post: connection failed">>,
                stdout |-> "", file |-> file, exit |-> 1]
          [] reply.status # StatusOK ->
               [stderr |-> <<"Token exchange failed: ", reply.body>>,
                stdout |-> "", file |-> file, exit |-> 1]
          [] ~reply.json ->
               [stderr |-> <<"Failed to parse token: ", "invalid character">>,
                stdout |-> "", file |-> file, exit |-> 1]
          [] saved.err # nil ->
               [stderr |-> <<"Failed to save token: ">> \o saved.err,
                stdout |-> "", file |-> saved.file, exit |-> 1]
          [] OTHER ->
               [stderr |-> <<>>, stdout |-> "Authenticated successfully!",
                file |-> saved.file, exit |-> 0]

\* The main flow runs exchangeCode(code) and the process ends.
exchange ==
    /\ pc = "exchanging"
    /\ \E reply \in TokenReplies, lat \in Latencies, outcome \in SaveOutcomes :
         LET x == exchangeCode(code, tokenFile, now + lat, reply, outcome)
         IN  /\ now + lat <= MaxNow
             /\ now' = now + lat
             /\ tokenFile' = x.file
             /\ stdout' = IF x.stdout = "" THEN stdout ELSE x.stdout
             /\ stderr' = IF x.stderr = <<>> THEN stderr ELSE Append(stderr, x.stderr)
             /\ exitCode' = x.exit
             /\ pc' = IF x.exit = 0 THEN "authenticated" ELSE "failed"
             /\ exchangeReply' = [neterr |-> reply.neterr, status |-> reply.status,
                                   body |-> reply.body]
    /\ exchanges' = exchanges + 1
    /\ UNCHANGED <<cmd, configLoaded, fetchVars, state, codeChan, errChan, server, listener,
                   handlers, deadline, code, authErr, fileAtStart>>

(* ---------------------------- specifications --------------------------- *)

\* One invocation of the program, from the shell to the process's end.
Next ==
    \/ Tick
    \/ mainEarlyExit
    \/ mainUnknown
    \/ mainFetch
    \/ fetchStep
    \/ mainAuth
    \/ listenerStart
    \/ listenerReturn
    \/ listenerSend
    \/ callback
    \/ handlerSend
    \/ selectCode
    \/ selectErr
    \/ selectTimeout
    \/ caseCode
    \/ caseErr
    \/ caseTimeout
    \/ exchange

Spec == Init /\ [][Next]_vars

\* The main goroutine's steps.  It is the goroutine that os.Exit and the
\* return of main wait for, and the Go scheduler runs a runnable goroutine
\* eventually.
mainStep == selectCode \/ selectErr \/ selectTimeout \/ caseCode \/ caseErr \/ caseTimeout

\* The program with time passing and the main goroutine scheduled; nothing
\* obliges a browser to call back, nor the listener to fail.
FairSpec == Spec /\ WF_vars(Tick) /\ WF_vars(mainStep)

(* ------------------------- the token manager's claims ------------------ *)

\* An apiGet call was made, and its getValidToken loaded a record.
Loaded == call.endpoint # "" /\ call.gvt.loaded

\* token.json holds the record getValidToken loaded.
FileAsLoaded == tokenFile = [state |-> "ok", tok |-> call.gvt.stored]

\* C1, as claimed: for every persisted record with expires_at <= now + 5
\* minutes, getValidToken invokes refreshToken before it returns.
C1_RefreshWithinFiveInclusive ==
    (Loaded /\ call.gvt.stored.expires_at <= call.gvt.at + FiveMinutes) => call.gvt.refresh

\* C1, amended: for every persisted record with expires_at < now + 5 minutes
\* (strictly), getValidToken invokes refreshToken before it returns, and the
\* access token it returns, if any, is the one refreshToken returned.
C1_RefreshWithinFive ==
    (Loaded /\ call.gvt.stored.expires_at < call.gvt.at + FiveMinutes) =>
        /\ call.gvt.refresh
        /\ call.gvt.err = nil => call.gvt.token = call.gvt.used.access_token
                                 /\ tokenFile = [state |-> "ok", tok |-> call.gvt.used]

C1_Witness ==
    /\ Loaded
    /\ call.gvt.stored.expires_at < call.gvt.at + FiveMinutes
    /\ call.gvt.refresh
    /\ call.gvt.err = nil

\* C2: for every persisted record with expires_at > now + 5 minutes,
\* getValidToken returns the stored access_token, makes no request to the
\* token endpoint and does not write token.json.
C2_FreshTokenReturned ==
    (Loaded /\ call.gvt.stored.expires_at > call.gvt.at + FiveMinutes) =>
        /\ call.gvt.err = nil
        /\ call.gvt.token = call.gvt.stored.access_token
        /\ ~call.gvt.refresh
        /\ call.gvt.status = 0
        /\ ~call.gvt.wrote
        /\ FileAsLoaded

C2_Witness ==
    /\ Loaded
    /\ call.gvt.stored.expires_at > call.gvt.at + FiveMinutes
    /\ call.sent
    /\ call.bearer = call.gvt.stored.access_token

\* C3, as claimed: an access token that apiGet attaches to a data-API GET
\* is never within 5 minutes (inclusive) of its recorded expires_at when it
\* is used.
C3_NeverUsedNearExpiry ==
    call.sent => call.bearerExpiresAt > call.sentAt + FiveMinutes

\* C3, amended: an access token that apiGet attaches to a data-API GET
\* either belongs to the stored record, whose expires_at was then at least 5
\* minutes after the time of getValidToken's check, or is the token that a
\* refresh made by that same call returned and stored, whatever expires_in
\* the server chose for it.
C3_UsedFreshOrJustRefreshed ==
    call.sent =>
        \/ /\ ~call.gvt.refresh
           /\ call.bearer = call.gvt.stored.access_token
           /\ call.bearerExpiresAt = call.gvt.stored.expires_at
           /\ call.bearerExpiresAt >= call.gvt.at + FiveMinutes
        \/ /\ call.gvt.refresh
           /\ call.gvt.status = StatusOK
           /\ call.gvt.stored.expires_at < call.gvt.at + FiveMinutes
           /\ tokenFile.state = "ok"
           /\ call.bearer = tokenFile.tok.access_token
           /\ call.bearerExpiresAt = tokenFile.tok.expires_at

C3_Witness ==
    /\ call.sent
    /\ call.gvt.refresh
    /\ call.bearerExpiresAt < call.sentAt + FiveMinutes

\* C4: when the token endpoint answers a refresh with a non-200 status,
\* getValidToken fails with the refresh-failed error that carries the
\* response body, and token.json holds the record it held before the call.
C4_RefreshRejected ==
    (Loaded /\ call.gvt.refresh /\ call.gvt.status \notin {0, StatusOK}) =>
        /\ call.gvt.token = 0
        /\ call.gvt.err = <<"token refresh failed - run 'oura auth' again: ",
                            "token refresh failed: ", call.gvt.body>>
        /\ call.err = call.gvt.err
        /\ ~call.sent
        /\ ~call.gvt.wrote
        /\ FileAsLoaded

C4_Witness ==
    /\ Loaded
    /\ call.gvt.refresh
    /\ call.gvt.status = 401
    /\ call.gvt.body = "invalid_grant"
    /\ FileAsLoaded

(* --------------------------- the commands' claims ---------------------- *)

\* The last apiGet call failed.
CallFailed == call.endpoint # "" /\ call.err # nil

\* The process ended on the error of its last apiGet call: the error is on
\* standard error, the exit status is 1, and no further step ran.
EndedOnError ==
    /\ pc = "exited"
    /\ exitCode = 1
    /\ stderr = <<<<"Error: ">> \o call.err>>
    /\ todo # <<>>
    /\ Head(todo).endpoint = call.endpoint

\* C10, as claimed: for every command, a failed token or data-API step is
\* terminal: no further step runs, the error is printed, the exit status
\* is not zero.
C10_EveryFailureTerminal == CallFailed => EndedOnError

\* The calls whose failure the code does not treat as terminal: every call
\* of fetchJSON, and the /daily_sleep call of fetchSleep.
Tolerated == cmd = "json" \/ call.endpoint = "/daily_sleep"

\* C10, amended: for every single-category command and for all and today, a
\* failed token or data-API step is terminal (no further step, the error on
\* standard error, exit status 1), except the /daily_sleep call of
\* fetchSleep, after whose failure the command goes on to /sleep; the json
\* command skips every failed endpoint, prints no error and exits 0.
C10_FailureTerminal ==
    /\ (CallFailed /\ ~Tolerated) => EndedOnError
    /\ (CallFailed /\ Tolerated /\ cmd # "json") =>
          pc = "fetch" /\ todo # <<>> /\ Head(todo).endpoint = "/sleep" /\ stderr = <<>>
    /\ (cmd = "json" /\ call.endpoint # "") =>
          /\ stderr = <<>>
          /\ exitCode \in {Running, 0}
          /\ pc = "exited" <=> (call.endpoint = "/workout")

C10_Witness ==
    /\ cmd = "all"
    /\ CallFailed
    /\ call.endpoint = "/daily_activity"
    /\ EndedOnError
    /\ Len(todo) = 3

(* ---------------------------- the auth flow's claims ------------------- *)

\* The handler invocations that found a state other than the session's.
Mismatched == {h \in BagToSet(handlers) : h.err = <<"state mismatch">>}

\* The handler invocations that took the request for the session's callback
\* (they answer with the "Authenticated!" page and send the code).
Accepted == {h \in BagToSet(handlers) : h.err = nil}

\* The number of invocations among the handlers hs, each counted as often as
\* it occurred.
Invocations(hs) == BagCardinality([h \in hs |-> handlers[h]])

\* C5, as claimed: a callback whose state differs from the session's is
\* rejected: its handler answers 400 and delivers no code, the session fails
\* with the state-mismatch error, and the flow never goes on to exchange a
\* code or to Authenticated.
C5_MismatchRejected ==
    (Mismatched # {}) =>
        /\ \A h \in Mismatched : h.code = "" /\ (h.at = "done" => h.status = StatusBadRequest)
        /\ pc \notin {"exchanging", "authenticated"}
        /\ exchanges = 0
        /\ pc \in {"failed", "timedout"} => stderr = <<<<"Auth error: ", "state mismatch">>>>

\* C6, as claimed: a callback with the session's state and a code is
\* accepted exactly once: no second callback is accepted, and no request is
\* processed once a callback has been delivered to the main flow.
C6_AcceptedOnce ==
    /\ Invocations(Accepted) <= 1
    /\ \A h \in BagToSet(handlers) : ~h.late

\* The sends performed so far, by the handlers and by the listener
\* goroutine.
Sends ==
    Invocations({h \in BagToSet(handlers) : h.sent}) + (IF listener = "sent" THEN 1 ELSE 0)

\* C7, as claimed: at most one send (code or error) is performed in a
\* session, and no sender is blocked on a full channel.
C7_AtMostOneSend ==
    /\ Sends <= 1
    /\ listener # "blocked"
    /\ \A h \in BagToSet(handlers) : h.at = "done"

\* No callback has come in and the listener has reported no error.
NoSignal == handlers = EmptyBag /\ listener \notin {"sent", "blocked"}

\* C8: while no callback and no listener error arrives, the flow waiting
\* for the callback eventually reaches TimedOut, and in TimedOut the two
\* minutes have passed, the listener is stopped, "Auth timeout" is reported,
\* no exchange was started, token.json is as it was and the exit status is 1.
C8_TimesOut ==
    /\ [](pc = "timedout" =>
            /\ now >= deadline
            /\ server = "closed"
            /\ stderr = <<<<"Auth timeout">>>>
            /\ exchanges = 0
            /\ tokenFile = fileAtStart
            /\ exitCode = 1)
    /\ ((pc = "awaiting" /\ NoSignal) ~> (pc = "timedout" \/ ~NoSignal))

C8_Witness ==
    /\ pc = "timedout"
    /\ NoSignal
    /\ listener = "serving"

\* C9: the main flow has stopped the listener whenever the flow is in
\* Exchanging, Authenticated, Failed or TimedOut.
C9_ListenerClosed ==
    pc \in {"exchanging", "authenticated", "failed", "timedout"} => server = "closed"

C9_Witness ==
    /\ pc = "authenticated"
    /\ server = "closed"
    /\ listener = "done"
    /\ handlers # EmptyBag

(* ------------------------ the empty result's claim --------------------- *)

\* The last apiGet call of a category command came back with a 200 body
\* that holds no record of the requested day, and the category has nothing
\* else to show (fetchSleep: no daily_sleep record either).
EmptyResult ==
    /\ cmd \in FetchCommands \ {"json"}
    /\ call.endpoint \notin {"", "/daily_sleep"}
    /\ call.err = nil
    /\ call.body = "empty"
    /\ call.endpoint = "/sleep" => ~dailySleep

\* The informational line of each category.
NoDataLine(ep) ==
    CASE ep = "/daily_readiness"  -> "No readiness data"
      [] ep = "/sleep"            -> "No sleep data"
      [] ep = "/daily_activity"   -> "No activity data"
      [] ep = "/daily_stress"     -> "No stress data"
      [] ep = "/heartrate"        -> "No heart rate data"
      [] ep = "/daily_spo2"       -> "No SpO2 data"
      [] ep = "/daily_resilience" -> "No resilience data"
      [] ep = "/vO2_max"          -> "No VO2 max data"
      [] ep = "/workout"          -> "No workout data"
      [] OTHER                    -> ""

\* The requests of all and today in their order: readiness, sleep (the
\* daily score, then the periods), activity, stress, heart rate.
AllOrder ==
    <<"/daily_readiness", "/daily_sleep", "/sleep", "/daily_activity", "/daily_stress",
      "/heartrate">>

\* The endpoints of the calls still to make.
Pending == [i \in 1..Len(todo) |-> todo[i].endpoint]

\* C11: an empty result for the requested date is not a failure: the
\* category prints its "No ... data" line and nothing on standard error; in
\* all and today the remaining categories are still fetched, in the order
\* readiness, sleep, activity, stress, heart rate; and the command ends
\* with exit status 0 unless a request failed.
C11_EmptyNotFatal ==
    /\ EmptyResult =>
          /\ stdout = NoDataLine(call.endpoint)
          /\ stderr = <<>>
          /\ IF todo = <<>> THEN pc = "exited" /\ exitCode = 0
                            ELSE pc = "fetch" /\ exitCode = Running
    /\ (cmd \in {"all", "today"} /\ configLoaded) =>
          \E k \in 0..Len(AllOrder) :
            /\ IF k = 0 THEN call = NoCall ELSE call.endpoint = AllOrder[k]
            /\ \/ Pending = SubSeq(AllOrder, k + 1, Len(AllOrder))
               \/ /\ k > 0
                  /\ Pending = SubSeq(AllOrder, k, Len(AllOrder))
                  /\ call.err # nil
                  /\ pc = "exited"
    /\ (cmd \in FetchCommands /\ configLoaded /\ pc = "exited") =>
          /\ exitCode = 0 <=> todo = <<>>
          /\ exitCode # 0 => call.err # nil

C11_Witness ==
    /\ cmd = "all"
    /\ EmptyResult
    /\ call.endpoint = "/sleep"
    /\ stdout = "No sleep data"
    /\ Pending = <<"/daily_activity", "/daily_stress", "/heartrate">>
    /\ pc = "fetch"

(* ------------------------ the code exchange's claim -------------------- *)

\* C12: in the auth flow token.json is written only after a callback with
\* the session's state and a non-empty code was received and the token
\* endpoint answered the exchange with 200; on a non-200 answer the flow
\* ends in Failed with the response body on standard error, token.json as
\* it was and exit status 1.
C12_WrittenOnlyAfterExchange ==
    cmd = "auth" =>
        /\ tokenFile # fileAtStart =>
              /\ exchanges = 1
              /\ ~exchangeReply.neterr
              /\ exchangeReply.status = StatusOK
              /\ code # ""
              /\ \E h \in Accepted : h.code = code /\ h.sent
        /\ (exchanges = 1 /\ ~exchangeReply.neterr /\ exchangeReply.status # StatusOK) =>
              /\ pc = "failed"
              /\ stderr = <<<<"Token exchange failed: ", exchangeReply.body>>>>
              /\ tokenFile = fileAtStart
              /\ exitCode = 1

C12_Witness ==
    /\ cmd = "auth"
    /\ pc = "authenticated"
    /\ fileAtStart = NoFile
    /\ tokenFile.state = "ok"
    /\ exchangeReply.status = StatusOK
    /\ code = "c1"

(* ------------------------ the missing token's claim -------------------- *)

\* The last apiGet call found no token record it could load.
Unauthenticated == call.endpoint # "" /\ ~call.gvt.loaded

\* The commands that show one category.
SingleCategory == FetchCommands \ {"all", "today", "json"}

\* C13: when no token record can be loaded, getValidToken fails with the
\* error that advises to run auth and does not contact the token endpoint,
\* apiGet issues no data-API request, and a single-category command exits
\* with status 1 and the error on standard error (sleep after its second
\* request has failed the same way).
C13_Unauthenticated ==
    /\ Unauthenticated =>
          /\ call.gvt.err = <<"not authenticated - run 'oura auth' first">>
          /\ call.gvt.token = 0
          /\ ~call.gvt.refresh
          /\ call.gvt.status = 0
          /\ ~call.gvt.wrote
          /\ ~call.sent
          /\ call.err = call.gvt.err
    /\ (Unauthenticated /\ cmd \in SingleCategory) =>
          \/ /\ pc = "exited"
             /\ exitCode = 1
             /\ stderr = <<<<"Error: ", "not authenticated - run 'oura auth' first">>>>
          \/ /\ cmd = "sleep"
             /\ call.endpoint = "/daily_sleep"
             /\ pc = "fetch"
             /\ Pending = <<"/sleep">>
    /\ (cmd \in SingleCategory /\ configLoaded /\ pc = "exited" /\ fileAtStart.state # "ok") =>
          /\ Unauthenticated
          /\ exitCode = 1

C13_Witness ==
    /\ cmd = "sleep"
    /\ Unauthenticated
    /\ call.endpoint = "/sleep"
    /\ pc = "exited"
    /\ exitCode = 1
    /\ tokenFile = NoFile

(* ------------------------ the usage text's claim ----------------------- *)

\* The invocation named no command or an unknown one, and main has run.
NoSuchCommand == pc # "shell" /\ cmd \notin Commands

\* The process started no listener and made no token or API request.
NothingStarted ==
    /\ server = "none"
    /\ listener = "none"
    /\ handlers = EmptyBag
    /\ call = NoCall
    /\ exchanges = 0
    /\ exchangeReply = NoReply
    /\ tokenFile = fileAtStart

\* C14, as claimed: for every invocation whose command is missing or
\* unknown, whatever the state of the config and token files, the program
\* prints the usage text and exits non-zero, without starting the listener
\* or making any token or API request.
C14_UsageWhateverConfig ==
    NoSuchCommand =>
        /\ pc = "exited"
        /\ stdout = "usage"
        /\ exitCode = 1
        /\ NothingStarted

\* C14, amended: a missing command gets the usage text whatever the config
\* and token files are; an unknown command gets the usage text when
\* config.json loads, and loadConfig's error on standard error, without the
\* usage text, when it does not; in every case the exit status is 1, no
\* listener is started and no token or API request is made.
C14_UsageOrConfigError ==
    NoSuchCommand =>
        /\ pc = "exited"
        /\ exitCode = 1
        /\ NothingStarted
        /\ IF cmd = "" \/ configLoaded
             THEN stdout = "usage" /\ stderr = <<>>
             ELSE /\ stdout = ""
                  /\ stderr \in {<<<<"missing config: config.json">>>>,
                                  <<<<"unexpected end of JSON input">>>>}

C14_Witness ==
    /\ cmd = "bogus"
    /\ pc = "exited"
    /\ ~configLoaded
    /\ stdout = ""
    /\ stderr = <<<<"missing config: config.json">>>>
    /\ fileAtStart.state = "ok"

(* ------------------------ the returned token's claim ------------------- *)

\* getValidToken of the last apiGet call returned a token.
Returned == call.endpoint # "" /\ call.gvt.err = nil

\* The refresh of the last apiGet call decoded a TokenResponse and its write
\* of token.json failed: the file was not written, or was left truncated.
PersistFailed ==
    /\ call.endpoint # ""
    /\ call.gvt.refresh
    /\ call.gvt.expiresIn > 0
    /\ ~call.gvt.wrote \/ tokenFile.state # "ok"

\* C15: whenever getValidToken returns successfully, the access token it
\* returns is the access_token of the record in token.json; after a refresh
\* that record is the new one, with expires_at = now + expires_in seconds,
\* written before the token is returned; and a refresh whose write of
\* token.json fails returns no token.
C15_ReturnedTokenIsStored ==
    /\ Returned =>
          /\ tokenFile.state = "ok"
          /\ call.gvt.token = tokenFile.tok.access_token
          /\ call.bearer = tokenFile.tok.access_token
          /\ call.gvt.refresh =>
                /\ call.gvt.wrote
                /\ call.gvt.status = StatusOK
                /\ call.gvt.expiresIn > 0
                /\ tokenFile.tok.expires_at = call.gvt.done + call.gvt.expiresIn
          /\ ~call.gvt.refresh => ~call.gvt.wrote /\ tokenFile.tok = call.gvt.stored
    /\ PersistFailed =>
          /\ call.gvt.token = 0
          /\ ~call.sent
          /\ call.gvt.err \in
                {<<"token refresh failed - run 'oura auth' again: ", "open token.json">>,
                 <<"token refresh failed - run 'oura auth' again: ", "write token.json">>}

C15_Witness ==
    /\ Returned
    /\ call.gvt.refresh
    /\ call.gvt.stored.access_token = 1
    /\ call.gvt.token = 2
    /\ tokenFile.tok.access_token = 2
    /\ tokenFile.tok.expires_at = call.gvt.done + 6 * Minute

====
